---- MODULE Spec2Model ----
(***************************************************************************)
(* Model of the IkaGo client pipeline (package main): the capture readers, *)
(* the outbound worker (handleListen / publish), the inbound worker        *)
(* (handleUpstream), the NAT table, the DNS record table and the traffic   *)
(* monitor.                                                                *)
(***************************************************************************)
EXTENDS Integers, Sequences, FiniteSets, TLC

\* ------------------------------------------------------------------ bounds
MaxFrames == 3      \* frames captured in one run of the outbound half (SpecListen)
MaxPipeFrames == 1  \* frames captured in one run of the whole pipeline (Spec)
MaxDatagrams == 1   \* datagrams the server sends down the transport in one run
MaxArpFrames == 2   \* frames captured in one run of the ARP publisher (SpecArp)
MaxCloseFrames == 3 \* frames captured in one run that is closed (SpecClose)
MaxLifeFrames == 1  \* frames captured in one run from main to the exit (SpecLife)
MaxErrFrames == 2   \* frames captured in one run with per-frame errors (SpecErr)
MaxErrDatagrams == 2 \* datagrams the server sends in such a run
QueueCap == 2       \* capacity of the channel c (1000 in the program)
MaxAnswers == 2     \* answers of a DNS layer given to a DNSIndicator (SpecDns)
MaxReplies == 3     \* echo replies the pinger receives in one run (SpecPing)
MaxPingSeq == 2     \* the largest sequence number of an echo reply

\* ------------------------------------------------------------ the universe
Conns == {"eth0", "eth1", "lo"}          \* the capture handles a run can open
\* The configurations a run starts from: listen devices, mode, monitor enabled,
\* KCP enabled
Configs == {[conns |-> {"eth0", "eth1"}, mode |-> "faketcp", monitor |-> TRUE,
             kcp |-> FALSE],
            [conns |-> {"eth0", "lo"}, mode |-> "tcp", monitor |-> FALSE,
             kcp |-> FALSE]}
\* The configuration of the runs that are closed
CloseConfigs == {[conns |-> {"eth0", "eth1"}, mode |-> "faketcp", monitor |-> TRUE,
                  kcp |-> FALSE]}
\* A configuration with one listen device
OneDevConfigs == {[conns |-> {"eth0"}, mode |-> "faketcp", monitor |-> TRUE,
                   kcp |-> FALSE]}
\* The same, with a FakeTCP transport that carries KCP
ArpConfigs == Configs \cup {[conns |-> {"eth0", "eth1"}, mode |-> "faketcp",
                             monitor |-> FALSE, kcp |-> TRUE]}
SrcIPs == {"10.0.0.2", "10.0.0.3"}       \* sources
MACs == {"aa", "bb"}                     \* hardware addresses on the LAN
ServerIP == "8.8.8.8"
PublishIP == "10.0.0.1"
ForgedIP == "192.168.123.164"
NoMAC == "nil"
NoPacket == [kind |-> "none"]
NoDNS == [kind |-> "none"]
NoNat == [srcHardwareAddr |-> NoMAC, conn |-> "none"]

\* RawConn.IsLoop and RawConn.LocalDev().HardwareAddr()
IsLoop(conn) == conn = "lo"
LocalMAC(conn) == IF conn = "eth0" THEN "e0" ELSE IF conn = "eth1" THEN "e1" ELSE NoMAC

\* The order in which open() takes the devices of a configuration
DevOrder == <<"eth0", "eth1", "lo">>
DevSeq(S) == LET Listened(d) == d \in S IN SelectSeq(DevOrder, Listened)

\* upDev: the device the transport is dialed from
UpDev == "eth1"

VARIABLES
    listenDevs, \* the devices to listen on, in the order open() takes them
    listenConns,\* the capture handles opened by open()
    mode,       \* "faketcp" | "tcp"
    isKCP,      \* whether the FakeTCP transport carries KCP
    rdPc,       \* capture reader of each conn: "idle" | "read" | "send" | "done"
    rdErr,      \* the last result of ReadPacket on each conn: "nil" | "read"
    rdPkt,      \* the packet a capture reader holds between ReadPacket and c <-
    nextId,     \* capture clock: the number of packets ReadPacket has returned
    captured,   \* history: <<src ip, src mac, conn>> of every packet read
    c,          \* the channel of ConnPacket
    outPc,      \* outbound worker: "idle" | "recv" | "publish" | "reconnect" | "write" | "record"
    outCp,      \* the ConnPacket the outbound worker handles / handled last
    outNi,      \* handleListen's local ni: the entry read at line 860, NoNat if !ok
    outErr,     \* the last return value of handleListen
    outAcc,     \* the accesses to nat made by handleListen, with the lock held
    wire,       \* the writes made on upConn, in order
    reconnects, \* number of upConn.Reconnect calls
    inbox,      \* datagrams the transport holds for upConn.Read
    nextDg,     \* number of datagrams the server has sent
    nat,        \* map source ip -> natIndicator
    monitor,    \* traffic monitor: whether it is non-nil, and its calls per direction
    dns,        \* DNS record table: ip -> name
    inPc,       \* main task: "open" | "dial" | "start" in open(), then the inbound
                \* worker: "read" | "handle" | "write" | "done"
    inDg,       \* the datagram the inbound worker handles / handled last
    inNi,       \* the natIndicator found by the lookup
    inErr,      \* the last return value of handleUpstream
    inAcc,      \* the accesses to nat made by handleUpstream, with the lock held
    upErr,      \* the last result of upConn.Read: "nil" | "EOF" | "other"
    egress,     \* the writes made on capture handles, in order
    isClosed,   \* the closed flag
    opened,     \* the resources acquired, in order: conns, "upConn", "pinger"
    released,   \* the resources released, in order
    sigPc,      \* signal task: "wait" | "listen" | "up" | "pinger" | "exit" | "done"
    exit,       \* the exit code of the process, "none" while it runs
    upWriters,  \* the tasks inside upConn.Write or upConn.Reconnect
    upReaders,  \* the tasks inside upConn.Read
    mainPc,     \* main(): "verify" | "draw" | "upport" | "sources" | "publish" |
                \* "monitor" | "call" | "open" (open() has been called)
    cfg,        \* cfg: Gateway, Sources, Publish (texts), Port, Monitor
    gateway,    \* main's local gateway
    upPort,     \* the upstream port
    sources,    \* the parsed sources
    publishIP,  \* the pointer publishIP
    filter,     \* the capture filter open() builds
    layer,      \* the DNS layer of a DNSIndicator
    layer0,     \* history: that layer as it was parsed
    reported,   \* what DNSIndicator.Answers returned for it
    dnsPc,      \* the calls made on the indicator: "none" | "parsed" |
                \* "answered" | "overwritten"
    pingTime,   \* pingTime: -1 at the start, the last round-trip time in ms, -2
                \* when the server is taken to be down
    pingSeq,    \* pingSeq: the sequence number of the last echo reply
    watchdogs,  \* the timeout tasks started by OnRecv, in the order of their
                \* deadlines: the Seq of their packet, "sleep" | "due" (to
                \* set pingTime) | "done", and as history whether a reply
                \* with a later Seq arrived while they slept and whether
                \* they set pingTime
    nReplies    \* the number of echo replies received

vars == <<listenDevs, listenConns, mode, isKCP, rdPc, rdErr, rdPkt, nextId, captured, c, outPc, outCp, outNi, outErr, wire,
          reconnects, inbox, nextDg, nat, monitor, dns, inPc, inDg, inNi,
          inErr, egress, isClosed, opened, released, sigPc, exit,
          upWriters, upReaders, outAcc, inAcc, upErr,
          mainPc, cfg, gateway, upPort, sources, publishIP, filter,
          layer, layer0, reported, dnsPc,
          pingTime, pingSeq, watchdogs, nReplies>>

mainVars == <<mainPc, cfg, gateway, upPort, sources, publishIP, filter>>
\* What no step of open() and of the tasks it starts changes
indVars == <<layer, layer0, reported, dnsPc>>
pingVars == <<pingTime, pingSeq, watchdogs, nReplies>>
cfgVars == <<listenDevs, mode, isKCP, mainVars, indVars, pingVars>>
listenVars == <<rdPc, rdErr, rdPkt, nextId, captured, c>>
lifeVars == <<listenConns, isClosed, opened, released, sigPc, exit>>
upVars == <<upWriters, upReaders>>
outVars == <<outPc, outCp, outNi, outErr, outAcc>>
inVars == <<inPc, inDg, inNi, inErr, inAcc, upErr>>

\* ------------------------------------------------------------------ packets
\* A captured packet: link layer, network layer contents (header) and payload;
\* id and dev are its capture metadata (capture order, capturing device). The
\* contents of an ARP request are its source protocol address, its target
\* protocol address and its source hardware address.
IPPacket(id, conn, ip, mac) ==
    [kind |-> "ip", id |-> id, dev |-> conn,
     link |-> IF IsLoop(conn) THEN [type |-> "loopback", src |-> NoMAC, dst |-> NoMAC]
              ELSE [type |-> "ethernet", src |-> mac, dst |-> LocalMAC(conn)],
     contents |-> [src |-> ip, dst |-> ServerIP],
     payload |-> "X"]

ARPPacket(id, conn, ip, mac) ==
    [kind |-> "arp", id |-> id, dev |-> conn,
     link |-> IF IsLoop(conn) THEN [type |-> "loopback", src |-> NoMAC, dst |-> NoMAC]
              ELSE [type |-> "ethernet", src |-> mac, dst |-> "ff"],
     contents |-> [src |-> ip, dst |-> PublishIP, srcHw |-> mac],
     payload |-> "arp-request"]

BadPacket(id, conn) ==
    [kind |-> "bad", id |-> id, dev |-> conn,
     link |-> [type |-> "ethernet", src |-> NoMAC, dst |-> NoMAC],
     contents |-> [src |-> "?", dst |-> "?"],
     payload |-> "?"]

\* What ReadPacket can return on a conn.
PacketsOn(id, conn) ==
    LET macs == IF IsLoop(conn) THEN {NoMAC} ELSE MACs
    IN  {IPPacket(id, conn, ip, mac) : ip \in SrcIPs, mac \in macs}
        \cup {ARPPacket(id, conn, ip, mac) : ip \in {"10.0.0.2"}, mac \in macs \ {"bb"}}
        \cup {BadPacket(id, conn)}

\* Whether a resource has been released
Released(r) == \E i \in DOMAIN released : released[i] = r

\* ReadPacket on a closed capture handle and Read on a closed transport return
\* an error.
ReadFails(r) == Released(r)

\* What ReadPacket returns on a conn of a network whose one host sends IP
PacketsOfOne(id, conn) ==
    {IPPacket(id, conn, "10.0.0.2", IF IsLoop(conn) THEN NoMAC ELSE "aa")}

\* The same host, sending IP, ARP requests and frames that do not parse
PacketsOfOneMixed(id, conn) ==
    PacketsOfOne(id, conn)
    \cup {ARPPacket(id, conn, "10.0.0.2", IF IsLoop(conn) THEN NoMAC ELSE "aa"),
          BadPacket(id, conn)}

\* PacketIndicator accessors
SrcIP(p) == p.contents.src
DstIP(p) == p.contents.dst
SrcHardwareAddr(p) == p.link.src

\* ------------------------------------------------------------------- tasks
\* The task that runs open(), and after it the loop on upConn.Read
MainTask == "main"

\* Every capture reader handling the packets of its own handle
HandlerOf_reader(conn) == conn

\* The task that runs handleListen for the packets captured on a handle: the
\* one task that receives from c (lines 698-707)
HandlerOf(conn) == "worker"

\* ------------------------------------------------------------ the channel c
\* A channel that puts the new element in front
Enqueue_front(q, cp) == <<cp>> \o q

\* A channel that hands out its newest element
Dequeue_last(q) == [item |-> q[Len(q)], rest |-> SubSeq(q, 1, Len(q) - 1)]

\* A channel that discards the new element when it holds one already
Enqueue_lossy(q, cp) == IF q = <<>> THEN Append(q, cp) ELSE q

\* c <- cp (line 693): the channel is first in, first out
Enqueue(q, cp) == Append(q, cp)

\* cp := range c (line 699)
Dequeue(q) == [item |-> Head(q), rest |-> Tail(q)]

\* ------------------------------------------------------------ capture readers
\* open(), lines 682-695: packet, err := conn.ReadPacket(), returning one of
\* the packets pkts
ReaderReads(conn, limit, pkts) ==
    /\ exit = "none"
    /\ conn \in listenConns
    /\ rdPc[conn] = "read"
    /\ ~ReadFails(conn)
    /\ nextId < limit
    /\ \E p \in pkts :
          /\ rdPkt' = [rdPkt EXCEPT ![conn] = p]
          /\ captured' = IF p.kind = "ip"
                         THEN captured \cup {<<SrcIP(p), SrcHardwareAddr(p), conn>>}
                         ELSE captured
    /\ nextId' = nextId + 1
    /\ rdPc' = [rdPc EXCEPT ![conn] = "send"]
    /\ rdErr' = [rdErr EXCEPT ![conn] = "nil"]
    /\ UNCHANGED <<upVars, cfgVars, lifeVars, c, outVars, wire, reconnects, inbox, nextDg, nat,
                   monitor, dns, inVars, egress>>

ReaderRead(conn, limit) == ReaderReads(conn, limit, PacketsOn(nextId + 1, conn))

\* open(), line 693: c <- pcap.ConnPacket{Packet: packet, Conn: conn}; blocks when full
ReaderSend(conn) ==
    /\ exit = "none"
    /\ conn \in listenConns
    /\ rdPc[conn] = "send"
    /\ Len(c) < QueueCap
    /\ c' = Enqueue(c, [Packet |-> rdPkt[conn], Conn |-> conn])
    /\ rdPkt' = [rdPkt EXCEPT ![conn] = NoPacket]
    /\ rdPc' = [rdPc EXCEPT ![conn] = "read"]
    /\ rdErr' = rdErr
    /\ UNCHANGED <<upVars, cfgVars, lifeVars, nextId, captured, outVars, wire, reconnects, inbox,
                   nextDg, nat, monitor, dns, inVars, egress>>

\* ------------------------------------------------------------ outbound worker
\* The whole captured frame is written, link layer included
ListenData_withLink(p) == <<p.link, p.contents, p.payload>>

\* What handleListen writes to upConn: the network layer's contents followed
\* by its payload (lines 849-851).
ListenData(p) == <<p.contents, p.payload>>

\* Lookup with a fallback: a miss yields a default entry instead of !ok
Lookup_fallback(n, ip) ==
    IF ip \in DOMAIN n THEN [ok |-> TRUE, ni |-> n[ip]]
    ELSE [ok |-> TRUE, ni |-> [srcHardwareAddr |-> "ff", conn |-> "eth0"]]

\* ni, ok := nat[ip] (lines 860 and 901)
Lookup(n, ip) ==
    IF ip \in DOMAIN n THEN [ok |-> TRUE, ni |-> n[ip]] ELSE [ok |-> FALSE, ni |-> NoNat]

\* The entry is stored under the destination IP instead of the source IP
NatRecord_dstKey(n, p, conn) ==
    [k \in DOMAIN n \cup {DstIP(p)} |->
        IF k = DstIP(p) THEN [srcHardwareAddr |-> SrcHardwareAddr(p), conn |-> conn]
        ELSE n[k]]

\* An entry found with the observed MAC is evicted instead of kept
NatRecord_evict(n, p, conn) ==
    IF SrcIP(p) \notin DOMAIN n \/ n[SrcIP(p)].srcHardwareAddr # SrcHardwareAddr(p)
    THEN [k \in DOMAIN n \cup {SrcIP(p)} |->
             IF k = SrcIP(p) THEN [srcHardwareAddr |-> SrcHardwareAddr(p), conn |-> conn]
             ELSE n[k]]
    ELSE [k \in DOMAIN n \ {SrcIP(p)} |-> n[k]]

\* The entry is stored without comparing the stored MAC
NatRecord_always(n, p, conn) ==
    [k \in DOMAIN n \cup {SrcIP(p)} |->
        IF k = SrcIP(p) THEN [srcHardwareAddr |-> SrcHardwareAddr(p), conn |-> conn]
        ELSE n[k]]

\* The entry keeps the stored handle when the MAC changes
NatRecord_keepConn(n, p, conn) ==
    IF SrcIP(p) \notin DOMAIN n
    THEN [k \in DOMAIN n \cup {SrcIP(p)} |->
             IF k = SrcIP(p) THEN [srcHardwareAddr |-> SrcHardwareAddr(p), conn |-> conn]
             ELSE n[k]]
    ELSE [n EXCEPT ![SrcIP(p)].srcHardwareAddr = SrcHardwareAddr(p)]

\* The nat map after "Record the connection of the packet" (lines 859-865).
NatRecord(n, p, conn) ==
    LET ip == SrcIP(p)
        hw == SrcHardwareAddr(p)
    IN  IF ~Lookup(n, ip).ok \/ Lookup(n, ip).ni.srcHardwareAddr # hw
        THEN [k \in DOMAIN n \cup {ip} |->
                 IF k = ip THEN [srcHardwareAddr |-> hw, conn |-> conn] ELSE n[k]]
        ELSE n

\* The condition of line 861, read from nat without natLock (line 860)
NeedsUpsert(n, p) ==
    \/ ~Lookup(n, SrcIP(p)).ok
    \/ Lookup(n, SrcIP(p)).ni.srcHardwareAddr # SrcHardwareAddr(p)

\* monitor.AddBidirectional, guarded by monitor != nil
MonitorAdd(m, dir) ==
    IF ~m.on THEN m
    ELSE IF dir = "out" THEN [m EXCEPT !.out = @ + 1] ELSE [m EXCEPT !.in = @ + 1]

\* A worker that returns when handleListen returns an error
OutNext_stop(err) == IF err = "nil" THEN "recv" ELSE "done"

\* open(), lines 699-705: whatever handleListen returns, an error is logged
\* and the loop goes on with the next item of c
OutNext(err) == "recv"

\* open(), lines 710-728: whatever handleUpstream returns, an error is logged
\* and the loop goes on with the next upConn.Read
InNext(err) == "read"

\* for cp := range c; handleListen up to the first blocking call:
\* ParsePacket (lines 831-835) and the ARP test (line 838). No code closes c,
\* so the loop has no end: on an empty c the worker waits.
OutRecv ==
    /\ exit = "none"
    /\ outPc = "recv"
    /\ c # <<>>
    /\ outCp' = Dequeue(c).item
    /\ c' = Dequeue(c).rest
    /\ outNi' = NoNat
    /\ IF outCp'.Packet.kind = "bad"
       THEN outPc' = OutNext("parse packet") /\ outErr' = "parse packet"
       ELSE IF outCp'.Packet.kind = "arp"
       THEN outPc' = "publish" /\ outErr' = "pending"
       ELSE outPc' = "write" /\ outErr' = "pending"
    /\ upWriters' = IF outPc' = "write"
                    THEN upWriters \cup {HandlerOf(outCp'.Conn)} ELSE upWriters
    /\ outAcc' = {}
    /\ UNCHANGED <<upReaders, cfgVars, lifeVars, rdPc, rdErr, rdPkt, nextId, captured, wire, reconnects, inbox,
                   nextDg, nat, monitor, dns, inVars, egress>>

\* The ARP reply publish() builds (lines 766-792).
ARPReply(p, conn, ok) ==
    [origin |-> "arp", id |-> p.id, conn |-> conn,
     link |-> [type |-> "ethernet", src |-> LocalMAC(conn), dst |-> p.link.src],
     data |-> <<[op |-> "reply", srcHw |-> LocalMAC(conn), srcProt |-> p.contents.dst,
                 dstHw |-> p.contents.srcHw, dstProt |-> p.contents.src]>>,
     ok |-> ok]

\* Whether upConn is a *pcap.FakeTCPConn, the case of the type switch at line
\* 809. What pcap.DialFakeTCP and pcap.DialFakeTCPWithKCP return is given by
\* the transport variants FakeTcp and FakeTcpKcp, which both have reconnect.
IsFakeTCPConn(m, kcp) == m = "faketcp"

\* A publisher that goes on to the reconnect whatever conn.Write returned
PublishNext_always(wok) == "reconnect"

\* After publish() the frame goes on to the transport
PublishNext_tunnel(wok) == "write"

\* publish(), lines 800-804: a write error returns before the reconnect
PublishNext(wok) == IF wok THEN "reconnect" ELSE OutNext("publish")

\* publish(), lines 747-804, called from handleListen lines 838-844: build the
\* reply, serialize it and write it on the capture handle. Every error of
\* publish() is returned by handleListen as its 'publish' error.
OutPublish ==
    /\ exit = "none"
    /\ outPc = "publish"
    /\ \/ /\ outCp.Packet.link.type # "ethernet"
          /\ outErr' = "publish"
          /\ outPc' = OutNext("publish")
          /\ UNCHANGED egress
       \/ /\ outCp.Packet.link.type = "ethernet"
          /\ \E sok \in BOOLEAN, wok \in BOOLEAN :
               IF ~sok
               THEN /\ outErr' = "publish"
                    /\ outPc' = OutNext("publish")
                    /\ UNCHANGED egress
               ELSE /\ egress' = Append(egress, ARPReply(outCp.Packet, outCp.Conn, wok))
                    /\ outPc' = PublishNext(wok)
                    /\ outErr' = IF wok THEN outErr ELSE "publish"
    /\ upWriters' = IF outPc' = "reconnect" /\ IsFakeTCPConn(mode, isKCP)
                    THEN upWriters \cup {HandlerOf(outCp.Conn)} ELSE upWriters
    /\ UNCHANGED <<outAcc, upReaders, cfgVars, lifeVars, listenVars, outCp, outNi, wire, reconnects, inbox, nextDg,
                   nat, monitor, dns, inVars>>

\* publish(), lines 806-822: the reconnect of a FakeTCP transport (upConn is
\* never nil once the tasks run).
OutReconnect ==
    /\ exit = "none"
    /\ outPc = "reconnect"
    /\ IF IsFakeTCPConn(mode, isKCP)
       THEN \E rok \in BOOLEAN :
               /\ reconnects' = reconnects + 1
               /\ outErr' = IF rok THEN "nil" ELSE "publish"
       ELSE /\ reconnects' = reconnects
            /\ outErr' = "nil"
    /\ outPc' = OutNext(outErr')
    /\ upWriters' = upWriters \ {HandlerOf(outCp.Conn)}
    /\ UNCHANGED <<outAcc, upReaders, cfgVars, lifeVars, listenVars, outCp, outNi, wire, inbox, nextDg, nat,
                   monitor, dns, inVars, egress>>

\* handleListen, lines 853-857: _, err = upConn.Write(data)
OutWrite ==
    /\ exit = "none"
    /\ outPc = "write"
    /\ \E ok \in BOOLEAN :
          IF ok
          THEN /\ wire' = Append(wire, [id |-> outCp.Packet.id, conn |-> outCp.Conn,
                                        src |-> SrcIP(outCp.Packet),
                                        data |-> ListenData(outCp.Packet)])
               /\ outPc' = "record"
               /\ outErr' = outErr
          ELSE /\ wire' = wire
               /\ outPc' = OutNext("write")
               /\ outErr' = "write"
    /\ upWriters' = upWriters \ {HandlerOf(outCp.Conn)}
    /\ UNCHANGED <<outAcc, upReaders, cfgVars, lifeVars, listenVars, outCp, outNi, reconnects, inbox, nextDg,
                   nat, monitor, dns, inVars, egress>>

\* handleListen, lines 859-876: record the connection (the entry is read
\* without natLock and stored under natLock.Lock), statistics, return nil
OutRecord ==
    /\ exit = "none"
    /\ outPc = "record"
    /\ outNi' = Lookup(nat, SrcIP(outCp.Packet)).ni
    /\ nat' = NatRecord(nat, outCp.Packet, outCp.Conn)
    /\ monitor' = MonitorAdd(monitor, "out")
    /\ outErr' = "nil"
    /\ outPc' = OutNext("nil")
    /\ outAcc' = {[op |-> "lookup", lock |-> "none"]}
                 \cup (IF NeedsUpsert(nat, outCp.Packet)
                       THEN {[op |-> "upsert", lock |-> "exclusive"]} ELSE {})
    /\ UNCHANGED <<upVars, cfgVars, lifeVars, listenVars, outCp, wire, reconnects, inbox, nextDg,
                   dns, inVars, egress>>

\* ------------------------------------------------------------------ transport
\* DNS layers the server can send: a response for a rewritten name with an A
\* and an AAAA answer, a response for another name, a query.
Answer(name, type, ip) == [Name |-> name, Type |-> type, IP |-> ip]
DNSLayers ==
    {NoDNS,
     [kind |-> "dns", QR |-> TRUE,
      Answers |-> <<Answer("api.twitter.com", "A", "104.244.42.1"),
                    Answer("api.twitter.com", "AAAA", "2606::1")>>],
     [kind |-> "dns", QR |-> TRUE,
      Answers |-> <<Answer("example.com", "A", "93.184.216.34")>>],
     [kind |-> "dns", QR |-> FALSE, Answers |-> <<>>]}

\* An inner datagram: network layer contents (header) and network payload.
Datagram(id, dst, d, reply) ==
    [kind |-> "ip", id |-> id, reply |-> reply,
     contents |-> [src |-> ServerIP, dst |-> dst],
     payload |-> [transport |-> "udp", dns |-> d]]

OddDatagram(id, kind) ==
    [kind |-> kind, id |-> id, reply |-> FALSE,
     contents |-> [src |-> "?", dst |-> "?"],
     payload |-> [transport |-> "?", dns |-> NoDNS]]

\* What the server can send: a datagram is a reply when a frame of its
\* destination has been written to the transport.
ServerDatagrams(id) ==
    {Datagram(id, "10.0.0.2", l, \E i \in DOMAIN wire : wire[i].src = "10.0.0.2") :
        l \in DNSLayers}
    \cup {Datagram(id, "10.0.0.3", NoDNS, \E i \in DOMAIN wire : wire[i].src = "10.0.0.3")}
    \cup {OddDatagram(id, k) : k \in {"bad", "empty"}}

\* The server sends one of the datagrams dgs down the tunnel.
ServerSends(limit, dgs) ==
    /\ exit = "none"
    /\ nextDg < limit
    /\ nextDg' = nextDg + 1
    /\ \E d \in dgs : inbox' = Append(inbox, d)
    /\ UNCHANGED <<upVars, cfgVars, lifeVars, listenVars, outVars, wire, reconnects, nat, monitor,
                   dns, inVars, egress>>

ServerSend == ServerSends(MaxDatagrams, ServerDatagrams(nextDg + 1))

\* What a server without DNS traffic can send to the one host
DatagramsOfOne(id) ==
    {Datagram(id, "10.0.0.2", NoDNS, \E i \in DOMAIN wire : wire[i].src = "10.0.0.2"),
     OddDatagram(id, "bad")}

\* ------------------------------------------------------------- inbound worker
\* DNSIndicator.IsResponse
IsResponse(d) == d.QR

\* net.IP.To4() != nil
IsIPv4(ip) == ip \in {"104.244.42.1", "93.184.216.34", ForgedIP}

\* DNSIndicator.Answers: the name of the first answer, the IPv4 addresses
AnswersName(d) == IF Len(d.Answers) = 0 THEN "" ELSE d.Answers[1].Name
AnswersIPs(d) ==
    {d.Answers[i].IP : i \in {j \in DOMAIN d.Answers :
                                 d.Answers[j].IP # "nil" /\ IsIPv4(d.Answers[j].IP)}}

\* DNSIndicator.OverwriteAnswer
OverwriteAnswer(d, ipv4) ==
    [d EXCEPT !.Answers = [i \in DOMAIN d.Answers |->
        IF d.Answers[i].IP # "nil" THEN [d.Answers[i] EXCEPT !.IP = ipv4]
        ELSE d.Answers[i]]]

\* Every DNS response is rewritten, whatever its name
Rewrites_anyName(dg) ==
    /\ dg.payload.dns # NoDNS
    /\ IsResponse(dg.payload.dns)

\* The condition of the rewrite, handleUpstream lines 931-934
Rewrites(dg) ==
    /\ dg.payload.dns # NoDNS
    /\ IsResponse(dg.payload.dns)
    /\ AnswersName(dg.payload.dns) \in {"api.twitter.com", "www.facebook.com"}

\* The DNS layer after lines 931-947
DNSAfter(dg) ==
    IF Rewrites(dg) THEN OverwriteAnswer(dg.payload.dns, ForgedIP) ELSE dg.payload.dns

\* The Ethernet addresses exchanged: from the host's address to the local one
NewLinkLayer_swapped(ni) ==
    IF IsLoop(ni.conn)
    THEN [type |-> "loopback", src |-> NoMAC, dst |-> NoMAC]
    ELSE [type |-> "ethernet", src |-> ni.srcHardwareAddr, dst |-> LocalMAC(ni.conn)]

\* The link layer handleUpstream creates, lines 907-925
NewLinkLayer(ni) ==
    IF IsLoop(ni.conn)
    THEN [type |-> "loopback", src |-> NoMAC, dst |-> NoMAC]
    ELSE [type |-> "ethernet", src |-> LocalMAC(ni.conn), dst |-> ni.srcHardwareAddr]

\* The bytes handleUpstream serializes after the link layer, lines 927-947
UpstreamData(dg) ==
    IF Rewrites(dg)
    THEN <<dg.contents, [dg.payload EXCEPT !.dns = DNSAfter(dg)]>>
    ELSE <<dg.contents, dg.payload>>

\* The DNS record table after lines 963-976
DNSRecord(t, dg) ==
    LET d == DNSAfter(dg)
    IN  IF d # NoDNS /\ IsResponse(d) /\ AnswersName(d) # "" /\ AnswersIPs(d) # {}
        THEN [k \in DOMAIN t \cup AnswersIPs(d) |->
                 IF k \in AnswersIPs(d) THEN AnswersName(d) ELSE t[k]]
        ELSE t

\* open(), line 711: n, err := upConn.Read(b)
InRead ==
    /\ exit = "none"
    /\ inPc = "read"
    /\ ~ReadFails("upConn")
    /\ inbox # <<>>
    /\ inDg' = Head(inbox)
    /\ inbox' = Tail(inbox)
    /\ inPc' = "handle"
    /\ inErr' = "pending"
    /\ inNi' = NoNat
    /\ upReaders' = upReaders \ {MainTask}
    /\ inAcc' = {}
    /\ upErr' = "nil"
    /\ UNCHANGED <<upWriters, cfgVars, lifeVars, listenVars, outVars, wire, reconnects, nextDg, nat,
                   monitor, dns, egress>>

\* handleUpstream, lines 887-905: empty payload, ParseEmbPacket, check map
\* (under natLock.RLock)
InHandle ==
    /\ exit = "none"
    /\ inPc = "handle"
    /\ IF inDg.kind = "empty"
       THEN inPc' = InNext("nil") /\ inErr' = "nil" /\ inNi' = inNi
       ELSE IF inDg.kind = "bad"
       THEN /\ inPc' = InNext("parse embedded packet")
            /\ inErr' = "parse embedded packet" /\ inNi' = inNi
       ELSE IF ~Lookup(nat, DstIP(inDg)).ok
       THEN inPc' = InNext("missing nat") /\ inErr' = "missing nat" /\ inNi' = inNi
       ELSE inPc' = "write" /\ inErr' = inErr /\ inNi' = Lookup(nat, DstIP(inDg)).ni
    /\ upReaders' = IF inPc' = "read" THEN upReaders \cup {MainTask} ELSE upReaders
    /\ inAcc' = IF inDg.kind = "ip"
                THEN {[op |-> "lookup", lock |-> "shared"]} ELSE inAcc
    /\ UNCHANGED <<upErr, upWriters, cfgVars, lifeVars, listenVars, outVars, wire, reconnects, inbox, nextDg,
                   nat, monitor, dns, inDg, egress>>

\* handleUpstream, lines 907-981: link layer, serialize, ni.conn.Write,
\* statistics, record DNS
InWrite ==
    /\ exit = "none"
    /\ inPc = "write"
    /\ \E sok \in BOOLEAN, ok \in BOOLEAN :
          IF ~sok
          THEN /\ inErr' = "serialize"
               /\ UNCHANGED <<egress, monitor, dns>>
          ELSE /\ egress' = Append(egress, [origin |-> "in", id |-> inDg.id,
                                            conn |-> inNi.conn,
                                            link |-> NewLinkLayer(inNi),
                                            data |-> UpstreamData(inDg), ok |-> ok])
               /\ IF ok
                  THEN /\ monitor' = MonitorAdd(monitor, "in")
                       /\ dns' = DNSRecord(dns, inDg)
                       /\ inErr' = "nil"
                  ELSE /\ UNCHANGED <<monitor, dns>>
                       /\ inErr' = "write"
    /\ inPc' = InNext(inErr')
    /\ upReaders' = upReaders \cup {MainTask}
    /\ UNCHANGED <<upErr, inAcc, upWriters, cfgVars, lifeVars, listenVars, outVars, wire, reconnects, inbox, nextDg,
                   nat, inDg, inNi>>

\* ------------------------------------------------------------ read errors
\* A reader that reads again after every error
AfterReadErr_retry(closed) == "read"

\* open(), lines 685-687: if isClosed { return }
AfterReadErr(closed) == IF closed THEN "done" ELSE "read"

\* open(), lines 684-691: ReadPacket returns an error; the reader returns when
\* the closed flag is set, and logs the error and reads again otherwise.
ReaderReadErr(conn) ==
    /\ exit = "none"
    /\ conn \in listenConns
    /\ rdPc[conn] = "read"
    /\ rdPc' = [rdPc EXCEPT ![conn] = AfterReadErr(isClosed)]
    /\ rdErr' = [rdErr EXCEPT ![conn] = "read"]
    /\ UNCHANGED <<upVars, cfgVars, lifeVars, rdPkt, nextId, captured, c, outVars, wire,
                   reconnects, inbox, nextDg, nat, monitor, dns, inVars, egress>>

\* An inbound worker that tests for io.EOF before the closed flag
AfterUpErr_eofFirst(closed, err) ==
    IF err = "EOF" THEN "fatal" ELSE IF closed THEN "done" ELSE "read"

\* open(), lines 712-721: with the closed flag set open() returns nil, on
\* io.EOF log.Fatalf ends the process, any other error is logged and the loop
\* reads again.
AfterUpErr(closed, err) ==
    IF closed THEN "done" ELSE IF err = "EOF" THEN "fatal" ELSE "read"

\* open(), lines 711-721: upConn.Read returns an error
InReadErr ==
    /\ exit = "none"
    /\ inPc = "read"
    /\ \E err \in {"EOF", "other"} :
          /\ upErr' = err
          /\ inPc' = IF AfterUpErr(isClosed, err) = "done" THEN "done" ELSE inPc
          /\ exit' = IF AfterUpErr(isClosed, err) = "fatal" THEN "1" ELSE exit
    /\ upReaders' = IF inPc' = "read" /\ exit' = "none"
                    THEN upReaders ELSE upReaders \ {MainTask}
    /\ UNCHANGED <<upWriters, cfgVars, listenConns, isClosed, opened, released, sigPc,
                   listenVars, outVars, wire, reconnects, inbox, nextDg, nat,
                   monitor, dns, inDg, inNi, inErr, inAcc, egress>>

\* main(), lines 590-595: open() has returned nil and main returns
MainReturn ==
    /\ exit = "none"
    /\ inPc = "done"
    /\ exit' = "0"
    /\ UNCHANGED <<upVars, cfgVars, listenConns, isClosed, opened, released, sigPc,
                   listenVars, outVars, wire, reconnects, inbox, nextDg, nat,
                   monitor, dns, inVars, egress>>

\* ------------------------------------------------------------------ closeAll
\* main(), lines 584-586 and closeAll(), line 733: the signal arrives and the
\* closed flag is set.
SigClose ==
    /\ exit = "none"
    /\ sigPc = "wait"
    /\ isClosed' = TRUE
    /\ sigPc' = "listen"
    /\ UNCHANGED <<upVars, cfgVars, listenConns, opened, released, exit, listenVars,
                   outVars, wire, reconnects, inbox, nextDg, nat, monitor, dns,
                   inVars, egress>>

\* closeAll(), lines 734-738: every handle of listenConns is closed, in order
CloseListen ==
    /\ exit = "none"
    /\ sigPc = "listen"
    /\ released' = released \o DevSeq(listenConns)
    /\ sigPc' = "up"
    /\ UNCHANGED <<upVars, cfgVars, listenConns, isClosed, opened, exit, listenVars,
                   outVars, wire, reconnects, inbox, nextDg, nat, monitor, dns,
                   inVars, egress>>

\* closeAll(), lines 739-741: if upConn != nil { upConn.Close() }
CloseUp ==
    /\ exit = "none"
    /\ sigPc = "up"
    /\ released' = IF \E i \in DOMAIN opened : opened[i] = "upConn"
                   THEN Append(released, "upConn") ELSE released
    /\ sigPc' = "pinger"
    /\ UNCHANGED <<upVars, cfgVars, listenConns, isClosed, opened, exit, listenVars,
                   outVars, wire, reconnects, inbox, nextDg, nat, monitor, dns,
                   inVars, egress>>

\* closeAll(), lines 742-744: if pinger != nil { pinger.Stop() }; the pinger
\* exists when the monitor does (main, lines 356-456)
StopPinger ==
    /\ exit = "none"
    /\ sigPc = "pinger"
    /\ released' = IF monitor.on THEN Append(released, "pinger") ELSE released
    /\ sigPc' = "exit"
    /\ UNCHANGED <<upVars, cfgVars, listenConns, isClosed, opened, exit, listenVars,
                   outVars, wire, reconnects, inbox, nextDg, nat, monitor, dns,
                   inVars, egress>>

\* main(), line 587: os.Exit(0)
SigExit ==
    /\ exit = "none"
    /\ sigPc = "exit"
    /\ exit' = "0"
    /\ sigPc' = "done"
    /\ UNCHANGED <<upVars, cfgVars, listenConns, isClosed, opened, released, listenVars,
                   outVars, wire, reconnects, inbox, nextDg, nat, monitor, dns,
                   inVars, egress>>

\* ---------------------------------------------------------------------- open
\* The device open() takes next
NextDev == listenDevs[Cardinality(listenConns) + 1]

\* open(), lines 635-652: pcap.CreateRawConn for the next device; on an error
\* open() returns it and main ends the process with log.Fatalln (line 593).
OpenListen ==
    /\ exit = "none"
    /\ inPc = "open"
    /\ \E ok \in BOOLEAN :
          IF ok
          THEN /\ listenConns' = listenConns \cup {NextDev}
               /\ opened' = Append(opened, NextDev)
               /\ inPc' = IF Cardinality(listenConns') = Len(listenDevs)
                          THEN "dial" ELSE "open"
               /\ exit' = exit
          ELSE /\ exit' = "1"
               /\ UNCHANGED <<listenConns, opened, inPc>>
    /\ UNCHANGED <<upErr, inAcc, upVars, cfgVars, isClosed, released, sigPc, listenVars, outVars, wire,
                   reconnects, inbox, nextDg, nat, monitor, dns, inDg, inNi, inErr,
                   egress>>

\* open(), lines 654-669: the transport is dialed; on an error open() returns
\* it and main ends the process with log.Fatalln (line 593).
Dial ==
    /\ exit = "none"
    /\ inPc = "dial"
    /\ \E ok \in BOOLEAN :
          IF ok
          THEN opened' = Append(opened, "upConn") /\ inPc' = "start" /\ exit' = exit
          ELSE opened' = opened /\ inPc' = inPc /\ exit' = "1"
    /\ UNCHANGED <<upErr, inAcc, upVars, cfgVars, listenConns, isClosed, released, sigPc, listenVars,
                   outVars, wire, reconnects, inbox, nextDg, nat, monitor, dns, inDg,
                   inNi, inErr, egress>>

\* open(), lines 671-707: the pinger, the capture readers and the outbound
\* worker are started; the main task goes on as the inbound worker.
StartTasks ==
    /\ exit = "none"
    /\ inPc = "start"
    /\ opened' = IF monitor.on THEN Append(opened, "pinger") ELSE opened
    /\ rdPc' = [h \in Conns |-> IF h \in listenConns THEN "read" ELSE rdPc[h]]
    /\ outPc' = "recv"
    /\ inPc' = "read"
    /\ upReaders' = upReaders \cup {MainTask}
    /\ UNCHANGED <<upErr, outAcc, inAcc, upWriters, cfgVars, listenConns, isClosed, released, sigPc, exit, rdErr,
                   rdPkt, nextId, captured, c, outCp, outNi, outErr, wire,
                   reconnects, inbox, nextDg, nat, monitor, dns, inDg, inNi, inErr,
                   egress>>

\* ------------------------------------------------------------- DNSIndicator
\* The resource records a DNS layer can hold as answers: layers.DNS gives an
\* IP to the A and to the AAAA records and none to the others.
Records ==
    {Answer(n, "A", ip) : n \in {"api.twitter.com", "example.com"},
                          ip \in {"104.244.42.1", "93.184.216.34"}}
    \cup {Answer(n, "AAAA", "2606::1") : n \in {"api.twitter.com", "example.com"}}
    \cup {Answer(n, "CNAME", "nil") : n \in {"api.twitter.com", "example.com"}}

\* The sequences of at most n records
RECURSIVE SeqsUpTo(_)
SeqsUpTo(n) ==
    IF n = 0 THEN {<<>>}
    ELSE LET shorter == SeqsUpTo(n - 1)
         IN  shorter \cup {Append(q, r) : q \in {x \in shorter : Len(x) = n - 1},
                                          r \in Records}

\* No DNSIndicator is looked at
NoIndicator ==
    /\ layer = NoDNS
    /\ layer0 = NoDNS
    /\ reported = [name |-> "", ips |-> {}]
    /\ dnsPc = "none"

\* handleUpstream, line 933: name, _ := DNSIndicator().Answers()
CallAnswers ==
    /\ dnsPc = "parsed"
    /\ reported' = [name |-> AnswersName(layer), ips |-> AnswersIPs(layer)]
    /\ dnsPc' = "answered"
    /\ UNCHANGED <<layer, layer0>>
    /\ UNCHANGED <<listenDevs, mode, isKCP, mainVars, pingVars, listenVars, lifeVars, upVars,
                   outVars, inVars, wire, reconnects, inbox, nextDg, nat, monitor, dns,
                   egress>>

\* handleUpstream, line 935: DNSIndicator().OverwriteAnswer(net.IPv4(192, 168, 123, 164))
CallOverwrite ==
    /\ dnsPc = "answered"
    /\ layer' = OverwriteAnswer(layer, ForgedIP)
    /\ dnsPc' = "overwritten"
    /\ UNCHANGED <<layer0, reported>>
    /\ UNCHANGED <<listenDevs, mode, isKCP, mainVars, pingVars, listenVars, lifeVars, upVars,
                   outVars, inVars, wire, reconnects, inbox, nextDg, nat, monitor, dns,
                   egress>>

\* ------------------------------------------------------------------- pinger
\* init(), line 151: pingTime = -1; no echo reply has been received
PingerIdle ==
    /\ pingTime = -1
    /\ pingSeq = 0
    /\ watchdogs = <<>>
    /\ nReplies = 0

\* main(), line 446: if packet.Seq == pingSeq
Expired(seq, last) == seq = last

\* main(), lines 436-443: OnRecv is called with an echo reply of this Seq and
\* this round-trip time; it sets pingTime and pingSeq and starts the timeout
\* task of the packet. Replies can be duplicated and can arrive out of order.
OnRecv(seq, rtt) ==
    /\ exit = "none"
    /\ monitor.on
    /\ nReplies < MaxReplies
    /\ nReplies' = nReplies + 1
    /\ pingTime' = rtt
    /\ pingSeq' = seq
    /\ watchdogs' =
          Append([i \in DOMAIN watchdogs |->
                     IF watchdogs[i].st = "sleep" /\ seq > watchdogs[i].seq
                     THEN [watchdogs[i] EXCEPT !.later = TRUE] ELSE watchdogs[i]],
                 [seq |-> seq, st |-> "sleep", later |-> FALSE, set |-> FALSE])
    /\ UNCHANGED <<listenDevs, mode, isKCP, mainVars, indVars, listenVars, lifeVars,
                   upVars, outVars, inVars, wire, reconnects, inbox, nextDg, nat,
                   monitor, dns, egress>>

\* main(), lines 445-446: time.Sleep(pingDeadline) returns and the task
\* compares the Seq of its packet with pingSeq. The tasks sleep for the same
\* time, so they reach their deadlines in the order in which they were started.
WatchdogChecks(i) ==
    /\ exit = "none"
    /\ watchdogs[i].st = "sleep"
    /\ \A j \in 1..(i - 1) : watchdogs[j].st # "sleep"
    /\ watchdogs' = [watchdogs EXCEPT ![i].st =
                        IF Expired(watchdogs[i].seq, pingSeq) THEN "due" ELSE "done"]
    /\ UNCHANGED <<pingTime, pingSeq, nReplies>>
    /\ UNCHANGED <<listenDevs, mode, isKCP, mainVars, indVars, listenVars, lifeVars,
                   upVars, outVars, inVars, wire, reconnects, inbox, nextDg, nat,
                   monitor, dns, egress>>

\* main(), line 447: pingTime = -2
WatchdogSets(i) ==
    /\ exit = "none"
    /\ watchdogs[i].st = "due"
    /\ pingTime' = -2
    /\ watchdogs' = [watchdogs EXCEPT ![i].st = "done", ![i].set = TRUE]
    /\ UNCHANGED <<pingSeq, nReplies>>
    /\ UNCHANGED <<listenDevs, mode, isKCP, mainVars, indVars, listenVars, lifeVars,
                   upVars, outVars, inVars, wire, reconnects, inbox, nextDg, nat,
                   monitor, dns, egress>>

\* ---------------------------------------------------------------------- main
\* The text of an address is the sequence of its decimal fields; the empty
\* text is the empty string. A net.IP is the sequence of its bytes, nil when
\* empty.
NoIP == <<>>

\* net.ParseIP on a dotted text: the four bytes, or nil
ParseIP(text) ==
    IF Len(text) = 4 /\ \A i \in 1..4 : text[i] \in 0..255 THEN text ELSE NoIP

\* A *net.IPAddr: the nil pointer, or a pointer to an IPAddr with this IP
NilAddr == [nil |-> TRUE, IP |-> NoIP]
IPAddr(ip) == [nil |-> FALSE, IP |-> ip]

\* main(), lines 291 and 300: ports go up to MaxPort; a randomized port is
\* PortBase + r.Intn(PortSpan)
MaxPort == 65535
PortBase == 49152
PortSpan == 16384

\* uint16(n)
Uint16(n) == n % 65536

\* The values of r.Intn(PortSpan) that a run draws: the ends of its range and
\* the value that makes the port equal to the monitor port
Draws(mon) == {0, 1, PortSpan - 1} \cup ({mon - PortBase} \cap 0..(PortSpan - 1))

\* The texts a configuration gives for the gateway, the sources and publish
GatewayTexts == {<<>>, <<10, 0, 0, 1>>, <<10, 0, 0, 256>>}
SourceTexts == {<<>>, << <<10, 0, 0, 2>> >>, << <<10, 0, 0, 2>>, <<10, 0, 0, 999>> >>}
PublishTexts == {<<>>, <<10, 0, 0, 1>>, <<10, 0, 1>>}
\* The ports it gives for the upstream port and the monitor
PortValues == {-1, 0, 8080, PortBase, MaxPort, MaxPort + 1}
MonitorValues == {-1, 0, 8080, PortBase, MaxPort + 1}

\* The loop that draws a port does not look at the monitor port
LoopCond_zero(port, mon) == port = 0

\* main(), line 298: for cfg.Port == 0 || cfg.Port == cfg.Monitor
LoopCond(port, mon) == port = 0 \/ port = mon

\* main(), lines 244-293: the parameters are verified; log.Fatalln ends the
\* process. Of the checks, the model keeps those of the sources, the gateway,
\* the monitor port and the upstream port.
VerifyParams ==
    /\ exit = "none"
    /\ mainPc = "verify"
    /\ IF Len(cfg.Sources) <= 0
       THEN exit' = "1" /\ UNCHANGED <<gateway, mainPc>>
       ELSE IF cfg.Gateway # <<>> /\ ParseIP(cfg.Gateway) = NoIP
       THEN exit' = "1" /\ gateway' = NoIP /\ mainPc' = mainPc
       ELSE /\ gateway' = IF cfg.Gateway # <<>> THEN ParseIP(cfg.Gateway) ELSE gateway
            /\ IF \/ cfg.Monitor < 0 \/ cfg.Monitor > MaxPort
                  \/ cfg.Port < 0 \/ cfg.Port > MaxPort
               THEN exit' = "1" /\ mainPc' = mainPc
               ELSE exit' = exit /\ mainPc' = IF cfg.Port = 0 THEN "draw" ELSE "upport"
    /\ UNCHANGED <<cfg, upPort, sources, publishIP, filter>>
    /\ UNCHANGED <<listenDevs, mode, isKCP, indVars, pingVars, listenVars, listenConns, isClosed, opened,
                   released, sigPc, upVars, outVars, inVars, wire, reconnects, inbox,
                   nextDg, nat, monitor, dns, egress>>

\* main(), lines 298-301: one turn of the loop that randomizes the port
DrawPort ==
    /\ exit = "none"
    /\ mainPc = "draw"
    /\ LoopCond(cfg.Port, cfg.Monitor)
    /\ \E r \in Draws(cfg.Monitor) : cfg' = [cfg EXCEPT !.Port = PortBase + r]
    /\ UNCHANGED <<mainPc, gateway, upPort, sources, publishIP, filter>>
    /\ UNCHANGED <<listenDevs, mode, isKCP, indVars, pingVars, listenVars, lifeVars, upVars, outVars, inVars,
                   wire, reconnects, inbox, nextDg, nat, monitor, dns, egress>>

\* main(), line 303: upPort = uint16(cfg.Port)
SetUpPort ==
    /\ exit = "none"
    /\ \/ mainPc = "upport"
       \/ mainPc = "draw" /\ ~LoopCond(cfg.Port, cfg.Monitor)
    /\ upPort' = Uint16(cfg.Port)
    /\ mainPc' = "sources"
    /\ UNCHANGED <<cfg, gateway, sources, publishIP, filter>>
    /\ UNCHANGED <<listenDevs, mode, isKCP, indVars, pingVars, listenVars, lifeVars, upVars, outVars, inVars,
                   wire, reconnects, inbox, nextDg, nat, monitor, dns, egress>>

\* main(), lines 305-312: the sources are parsed, up to the first invalid one
ParseSources ==
    /\ exit = "none"
    /\ mainPc = "sources"
    /\ LET bad == {i \in DOMAIN cfg.Sources : ParseIP(cfg.Sources[i]) = NoIP}
           upto == IF bad = {} THEN Len(cfg.Sources)
                   ELSE (CHOOSE i \in bad : \A j \in bad : i <= j) - 1
       IN  /\ sources' = [i \in 1..upto |-> IPAddr(ParseIP(cfg.Sources[i]))]
           /\ IF bad = {} THEN exit' = exit /\ mainPc' = "publish"
              ELSE exit' = "1" /\ mainPc' = mainPc
    /\ UNCHANGED <<cfg, gateway, upPort, publishIP, filter>>
    /\ UNCHANGED <<listenDevs, mode, isKCP, indVars, pingVars, listenVars, listenConns, isClosed, opened,
                   released, sigPc, upVars, outVars, inVars, wire, reconnects, inbox,
                   nextDg, nat, monitor, dns, egress>>

\* main(), lines 322-329: publishIP is set whenever cfg.Publish is not empty;
\* an invalid address is logged with log.Errorln, which does not end the
\* process
ParsePublish ==
    /\ exit = "none"
    /\ mainPc = "publish"
    /\ publishIP' = IF cfg.Publish # <<>> THEN IPAddr(ParseIP(cfg.Publish))
                    ELSE publishIP
    /\ mainPc' = "monitor"
    /\ exit' = exit
    /\ UNCHANGED <<cfg, gateway, upPort, sources, filter>>
    /\ UNCHANGED <<listenDevs, mode, isKCP, indVars, pingVars, listenVars, listenConns, isClosed, opened,
                   released, sigPc, upVars, outVars, inVars, wire, reconnects, inbox,
                   nextDg, nat, monitor, dns, egress>>

\* main(), lines 355-362: with a monitor port, the port is compared with upPort
\* and the traffic monitor is made
StartMonitor ==
    /\ exit = "none"
    /\ mainPc = "monitor"
    /\ IF cfg.Monitor # 0
       THEN IF cfg.Monitor = upPort
            THEN exit' = "1" /\ mainPc' = mainPc /\ monitor' = monitor
            ELSE exit' = exit /\ mainPc' = "call" /\ monitor' = [monitor EXCEPT !.on = TRUE]
       ELSE exit' = exit /\ mainPc' = "call" /\ monitor' = monitor
    /\ UNCHANGED <<cfg, gateway, upPort, sources, publishIP, filter>>
    /\ UNCHANGED <<listenDevs, mode, isKCP, indVars, pingVars, listenVars, listenConns, isClosed, opened,
                   released, sigPc, upVars, outVars, inVars, wire, reconnects, inbox,
                   nextDg, nat, dns, egress>>

\* The capture filter of a destination address: dst host IP
DstBPFFilter(a) == <<a.IP>>

\* main(), line 591 and open(), lines 599-633: open() is called and builds the
\* capture filter from the sources and, when publishIP is not nil, from
\* publishIP; when addr.DstBPFFilter returns an error, open() returns it and
\* main ends the process with log.Fatalln (line 593).
CallOpen ==
    /\ exit = "none"
    /\ mainPc = "call"
    /\ mainPc' = "open"
    /\ IF publishIP.nil
       THEN /\ filter' = [src |-> {sources[i].IP : i \in DOMAIN sources}, arp |-> <<>>]
            /\ exit' = exit
       ELSE \E ok \in IF publishIP.IP = NoIP THEN BOOLEAN ELSE {TRUE} :
               IF ok
               THEN /\ filter' = [src |-> {sources[i].IP : i \in DOMAIN sources},
                                  arp |-> DstBPFFilter(publishIP)]
                    /\ exit' = exit
               ELSE filter' = filter /\ exit' = "1"
    /\ UNCHANGED <<cfg, gateway, upPort, sources, publishIP>>
    /\ UNCHANGED <<listenDevs, mode, isKCP, indVars, pingVars, listenVars, listenConns, isClosed, opened,
                   released, sigPc, upVars, outVars, inVars, wire, reconnects, inbox,
                   nextDg, nat, monitor, dns, egress>>

\* The start-up variables once main() has run with this configuration and
\* open() has built its filter
MainRan(cf) ==
    /\ mainPc = "open"
    /\ cfg = [Gateway |-> <<>>, Sources |-> << <<10, 0, 0, 2>>, <<10, 0, 0, 3>> >>,
              Publish |-> <<10, 0, 0, 1>>, Port |-> PortBase,
              Monitor |-> IF cf.monitor THEN 8080 ELSE 0]
    /\ gateway = NoIP
    /\ upPort = PortBase
    /\ sources = <<IPAddr(<<10, 0, 0, 2>>), IPAddr(<<10, 0, 0, 3>>)>>
    /\ publishIP = IPAddr(<<10, 0, 0, 1>>)
    /\ filter = [src |-> {<<10, 0, 0, 2>>, <<10, 0, 0, 3>>}, arp |-> << <<10, 0, 0, 1>> >>]

\* ------------------------------------------------------------- specification
\* The state after init() and main() have run and open() has started the tasks.
Started(cfs) ==
    /\ PingerIdle
    /\ \E cf \in cfs :
          /\ listenDevs = DevSeq(cf.conns)
          /\ listenConns = cf.conns
          /\ opened = DevSeq(cf.conns) \o <<"upConn">>
                         \o (IF cf.monitor THEN <<"pinger">> ELSE <<>>)
          /\ mode = cf.mode
          /\ isKCP = cf.kcp
          /\ monitor = [on |-> cf.monitor, out |-> 0, in |-> 0]
          /\ MainRan(cf)
    /\ rdPc = [h \in Conns |-> "read"]
    /\ rdErr = [h \in Conns |-> "nil"]
    /\ rdPkt = [h \in Conns |-> NoPacket]
    /\ nextId = 0
    /\ captured = {}
    /\ c = <<>>
    /\ outPc = "recv"
    /\ outCp = [Packet |-> NoPacket, Conn |-> "none"]
    /\ outNi = NoNat
    /\ outErr = "nil"
    /\ wire = <<>>
    /\ reconnects = 0
    /\ inbox = <<>>
    /\ nextDg = 0
    /\ nat = <<>>
    /\ dns = <<>>
    /\ inPc = "read"
    /\ inDg = OddDatagram(0, "none")
    /\ inNi = NoNat
    /\ inErr = "nil"
    /\ egress = <<>>
    /\ isClosed = FALSE
    /\ released = <<>>
    /\ sigPc = "wait"
    /\ exit = "none"
    /\ upWriters = {}
    /\ upReaders = {MainTask}
    /\ outAcc = {}
    /\ inAcc = {}
    /\ upErr = "nil"

InitWith(cfs) == Started(cfs) /\ NoIndicator

Init == InitWith(Configs)

Next ==
    \/ \E conn \in Conns : ReaderRead(conn, MaxPipeFrames)
    \/ \E conn \in Conns : ReaderSend(conn)
    \/ OutRecv
    \/ OutPublish
    \/ OutReconnect
    \/ OutWrite
    \/ OutRecord
    \/ ServerSend
    \/ InRead
    \/ InHandle
    \/ InWrite

Spec == Init /\ [][Next]_vars

\* The outbound half alone: the capture readers and the outbound worker
NextListen ==
    \/ \E conn \in Conns : ReaderRead(conn, MaxFrames)
    \/ \E conn \in Conns : ReaderSend(conn)
    \/ OutRecv
    \/ OutPublish
    \/ OutReconnect
    \/ OutWrite
    \/ OutRecord

SpecListen == Init /\ [][NextListen]_vars

\* The outbound half on every transport variant
InitArp == InitWith(ArpConfigs)

NextArp ==
    \/ \E conn \in Conns : ReaderRead(conn, MaxArpFrames)
    \/ \E conn \in Conns : ReaderSend(conn)
    \/ OutRecv
    \/ OutPublish
    \/ OutReconnect
    \/ OutWrite
    \/ OutRecord

SpecArp == InitArp /\ [][NextArp]_vars

\* The whole pipeline with one host on the network
NextErr ==
    \/ \E conn \in Conns :
          ReaderReads(conn, MaxErrFrames, PacketsOfOneMixed(nextId + 1, conn))
    \/ \E conn \in Conns : ReaderSend(conn)
    \/ OutRecv
    \/ OutPublish
    \/ OutReconnect
    \/ OutWrite
    \/ OutRecord
    \/ ServerSends(MaxErrDatagrams, DatagramsOfOne(nextDg + 1))
    \/ InRead
    \/ InHandle
    \/ InWrite

InitErr == InitWith(OneDevConfigs)

SpecErr == InitErr /\ [][NextErr]_vars

\* The outbound half and the main task while closeAll runs, up to the exit of
\* the process
Reader(conn) ==
    \/ ReaderReads(conn, MaxCloseFrames, PacketsOfOne(nextId + 1, conn))
    \/ ReadFails(conn) /\ ReaderReadErr(conn)
    \/ ReaderSend(conn)

Worker ==
    \/ OutRecv
    \/ OutPublish
    \/ OutReconnect
    \/ OutWrite
    \/ OutRecord

CloseAll ==
    \/ SigClose
    \/ CloseListen
    \/ CloseUp
    \/ StopPinger

NextClose ==
    \/ \E conn \in Conns : Reader(conn)
    \/ OutRecv
    \/ OutWrite
    \/ OutRecord
    \/ ReadFails("upConn") /\ InReadErr
    \/ CloseAll

\* The scheduler runs every task that can take a step; a call on a closed
\* handle returns. Neither a packet nor the signal has to arrive.
FairClose ==
    /\ \A conn \in Conns : WF_vars(ReadFails(conn) /\ ReaderReadErr(conn))
    /\ \A conn \in Conns : WF_vars(ReaderSend(conn))
    /\ WF_vars(Worker)
    /\ WF_vars(ReadFails("upConn") /\ InReadErr)
    /\ WF_vars(CloseListen \/ CloseUp \/ StopPinger)

\* The process from the call of open() to its exit: open(), the capture
\* readers, the outbound worker, the reads of the main task, closeAll.
\* The state when main calls open() (line 591): nothing is opened, no task
\* but the signal task runs.
InitLife ==
    /\ \E cf \in Configs :
          /\ listenDevs = DevSeq(cf.conns)
          /\ mode = cf.mode
          /\ isKCP = cf.kcp
          /\ monitor = [on |-> cf.monitor, out |-> 0, in |-> 0]
          /\ MainRan(cf)
    /\ NoIndicator
    /\ PingerIdle
    /\ listenConns = {}
    /\ opened = <<>>
    /\ rdPc = [h \in Conns |-> "idle"]
    /\ rdErr = [h \in Conns |-> "nil"]
    /\ rdPkt = [h \in Conns |-> NoPacket]
    /\ nextId = 0
    /\ captured = {}
    /\ c = <<>>
    /\ outPc = "idle"
    /\ outCp = [Packet |-> NoPacket, Conn |-> "none"]
    /\ outNi = NoNat
    /\ outErr = "nil"
    /\ wire = <<>>
    /\ reconnects = 0
    /\ inbox = <<>>
    /\ nextDg = 0
    /\ nat = <<>>
    /\ dns = <<>>
    /\ inPc = "open"
    /\ inDg = OddDatagram(0, "none")
    /\ inNi = NoNat
    /\ inErr = "nil"
    /\ egress = <<>>
    /\ isClosed = FALSE
    /\ released = <<>>
    /\ sigPc = "wait"
    /\ exit = "none"
    /\ upWriters = {}
    /\ upReaders = {}
    /\ outAcc = {}
    /\ inAcc = {}
    /\ upErr = "nil"

NextLife ==
    \/ OpenListen
    \/ Dial
    \/ StartTasks
    \/ \E conn \in Conns : ReaderReads(conn, MaxLifeFrames, PacketsOfOne(nextId + 1, conn))
    \/ \E conn \in Conns : ReaderReadErr(conn)
    \/ \E conn \in Conns : ReaderSend(conn)
    \/ OutRecv
    \/ OutWrite
    \/ OutRecord
    \/ InReadErr
    \/ MainReturn
    \/ CloseAll
    \/ SigExit

SpecLife == InitLife /\ [][NextLife]_vars

InitClose == InitWith(CloseConfigs)

SpecClose == InitClose /\ [][NextClose]_vars /\ FairClose

\* The same tasks up to and including the exit of the process, by os.Exit
\* after closeAll (line 587) or by the return of main
NextFan ==
    \/ NextClose
    \/ SigExit
    \/ MainReturn

SpecFan == InitClose /\ [][NextFan]_vars /\ FairClose

\* A DNSIndicator of every DNS layer of at most MaxAnswers answers, on which
\* Answers and then OverwriteAnswer are called
InitDns ==
    /\ Started(OneDevConfigs)
    /\ layer \in [kind : {"dns"}, QR : BOOLEAN, Answers : SeqsUpTo(MaxAnswers)]
    /\ layer0 = layer
    /\ reported = [name |-> "", ips |-> {}]
    /\ dnsPc = "parsed"

NextDns ==
    \/ CallAnswers
    \/ CallOverwrite

SpecDns == InitDns /\ [][NextDns]_vars

\* The pinger of a started pipeline with the monitor enabled: echo replies
\* with round-trip times of 5 and 9 ms, and their timeout tasks
InitPing == InitWith(OneDevConfigs)

NextPing ==
    \/ \E seq \in 1..MaxPingSeq, rtt \in {5, 9} : OnRecv(seq, rtt)
    \/ \E i \in DOMAIN watchdogs : WatchdogChecks(i)
    \/ \E i \in DOMAIN watchdogs : WatchdogSets(i)

SpecPing == InitPing /\ [][NextPing]_vars

\* main() from the verification of the parameters to the start of the tasks
\* in open(), for every configuration of the addresses and the ports
InitMain ==
    /\ \E cf \in Configs :
          /\ listenDevs = DevSeq(cf.conns)
          /\ mode = cf.mode
          /\ isKCP = cf.kcp
    /\ monitor = [on |-> FALSE, out |-> 0, in |-> 0]
    /\ mainPc = "verify"
    /\ cfg \in [Gateway : GatewayTexts, Sources : SourceTexts, Publish : PublishTexts,
                Port : PortValues, Monitor : MonitorValues]
    /\ gateway = NoIP
    /\ upPort = 0
    /\ sources = <<>>
    /\ publishIP = NilAddr
    /\ filter = [src |-> {}, arp |-> <<>>]
    /\ NoIndicator
    /\ PingerIdle
    /\ listenConns = {}
    /\ opened = <<>>
    /\ rdPc = [h \in Conns |-> "idle"]
    /\ rdErr = [h \in Conns |-> "nil"]
    /\ rdPkt = [h \in Conns |-> NoPacket]
    /\ nextId = 0
    /\ captured = {}
    /\ c = <<>>
    /\ outPc = "idle"
    /\ outCp = [Packet |-> NoPacket, Conn |-> "none"]
    /\ outNi = NoNat
    /\ outErr = "nil"
    /\ wire = <<>>
    /\ reconnects = 0
    /\ inbox = <<>>
    /\ nextDg = 0
    /\ nat = <<>>
    /\ dns = <<>>
    /\ inPc = "open"
    /\ inDg = OddDatagram(0, "none")
    /\ inNi = NoNat
    /\ inErr = "nil"
    /\ egress = <<>>
    /\ isClosed = FALSE
    /\ released = <<>>
    /\ sigPc = "wait"
    /\ exit = "none"
    /\ upWriters = {}
    /\ upReaders = {}
    /\ outAcc = {}
    /\ inAcc = {}
    /\ upErr = "nil"

NextMain ==
    \/ VerifyParams
    \/ DrawPort
    \/ SetUpPort
    \/ ParseSources
    \/ ParsePublish
    \/ StartMonitor
    \/ CallOpen
    \/ mainPc = "open" /\ OpenListen
    \/ mainPc = "open" /\ Dial
    \/ mainPc = "open" /\ StartTasks

SpecMain == InitMain /\ [][NextMain]_vars

\* ------------------------------------------------------------------- claims
\* The writes made on capture handles for the inner datagram with this id
EgressOf(eg, id) == {i \in DOMAIN eg : eg[i].origin = "in" /\ eg[i].id = id}

\* The step by which handleUpstream passes its NAT lookup
LookupStep == inPc = "handle" /\ inPc' # "handle" /\ inDg.kind = "ip"

\* C1. Drop on miss: when the inbound worker looks up the destination IP of an
\* inner datagram and the NAT table has no entry for it, the handler returns
\* the 'missing nat' error, no frame is written to any capture handle for the
\* datagram, and the NAT table, the DNS record table and the traffic monitor
\* are left unchanged.
DropOnMiss ==
    [][(LookupStep /\ DstIP(inDg) \notin DOMAIN nat) =>
          /\ inErr' = "missing nat"
          /\ inPc' = "read"
          /\ egress' = egress
          /\ EgressOf(egress', inDg.id) = {}
          /\ nat' = nat
          /\ dns' = dns
          /\ monitor' = monitor]_vars

\* A datagram was dropped on a miss while the NAT table held another entry.
DropOnMissWitness ==
    /\ inPc = "read"
    /\ inErr = "missing nat"
    /\ DOMAIN nat # {}
    /\ DstIP(inDg) \notin DOMAIN nat

\* The inbound worker has returned from handleUpstream after a NAT hit.
Reinjected == inPc = "read" /\ inDg.kind = "ip" /\ inErr \in {"nil", "write"}

\* The DNS rewrite does not apply to the datagram.
NotRewritten(dg) ==
    \/ dg.payload.dns = NoDNS
    \/ ~dg.payload.dns.QR
    \/ Len(dg.payload.dns.Answers) = 0
    \/ dg.payload.dns.Answers[1].Name \notin {"api.twitter.com", "www.facebook.com"}

UpsertPrecedesWrite ==
    ~(inPc = "read" /\ inDg.kind = "ip" /\ inDg.reply /\ inErr = "missing nat")

\* The outbound worker has returned from handleListen for a non-ARP frame
\* that parsed; Handled: it returned nil.
Finished == outPc = "recv" /\ outCp.Packet.kind = "ip"
Handled == Finished /\ outErr = "nil"

\* The step by which handleListen records the connection of the packet
RecordStep == outPc = "record" /\ outPc' = "recv"

\* The frame's (source IP, source MAC, capture handle) is the stored triple.
StoredTriple(n, cp) ==
    /\ SrcIP(cp.Packet) \in DOMAIN n
    /\ n[SrcIP(cp.Packet)] =
          [srcHardwareAddr |-> SrcHardwareAddr(cp.Packet), conn |-> cp.Packet.dev]

\* C4. NAT upsert on every outbound capture event: after the outbound worker
\* has finished handling a non-ARP frame that parses, with source IP s and
\* source MAC m, the NAT table has an entry for s whose MAC is m, also when the
\* transport write returned an error.
UpsertOnEveryFrame ==
    Finished =>
       /\ SrcIP(outCp.Packet) \in DOMAIN nat
       /\ nat[SrcIP(outCp.Packet)].srcHardwareAddr = SrcHardwareAddr(outCp.Packet)

NatIdempotence ==
    [][(outPc \in {"write", "record"} /\ StoredTriple(nat, outCp)) => nat' = nat]_vars

\* A frame equal to the stored triple was handled, with two entries in the table.
NatIdempotenceWitness ==
    /\ Handled
    /\ outNi = [srcHardwareAddr |-> SrcHardwareAddr(outCp.Packet),
                conn |-> outCp.Packet.dev]
    /\ StoredTriple(nat, outCp)
    /\ Cardinality(DOMAIN nat) = 2

\* C7. Every NAT entry s -> (mac, handle) is such that a frame with source IP
\* s and source MAC mac was captured before on that handle; entries are never
\* removed.
NatEntriesObserved ==
    /\ [](\A s \in DOMAIN nat : <<s, nat[s].srcHardwareAddr, nat[s].conn>> \in captured)
    /\ [][DOMAIN nat \subseteq DOMAIN nat']_vars

\* The table holds entries of two IPs, captured on different handles.
NatEntriesWitness ==
    \E s, t \in DOMAIN nat : s # t /\ nat[s].conn # nat[t].conn

\* C8, as claimed. After a non-ARP frame with source IP s captured on handle h
\* was handled successfully, the NAT entry for s stores h.
NatTracksLatestHandle ==
    Handled => nat[SrcIP(outCp.Packet)].conn = outCp.Packet.dev

\* C8, amended. After a non-ARP frame with source IP s and source MAC m
\* captured on handle h was handled successfully: when there was no entry for s
\* or its MAC differed from m, the entry for s is (m, h); when the previous
\* entry had MAC m, the entry is the previous one and keeps its handle.
NatHandleOnMacChange ==
    Handled =>
       IF outNi = NoNat \/ outNi.srcHardwareAddr # SrcHardwareAddr(outCp.Packet)
       THEN nat[SrcIP(outCp.Packet)] =
               [srcHardwareAddr |-> SrcHardwareAddr(outCp.Packet),
                conn |-> outCp.Packet.dev]
       ELSE nat[SrcIP(outCp.Packet)] = outNi

\* A frame with the stored MAC was handled on another handle than the stored one.
NatStaleHandleWitness ==
    /\ Handled
    /\ outNi # NoNat
    /\ outNi.srcHardwareAddr = SrcHardwareAddr(outCp.Packet)
    /\ outNi.conn # outCp.Packet.dev
    /\ nat[SrcIP(outCp.Packet)].conn = outNi.conn

\* C9. Per-handle ordering: the frames of one capture handle written to the
\* transport appear there in capture order; a captured non-ARP frame is written
\* at most once, and what is written is its IP header followed by its IP
\* payload, without the link layer.
PerHandleOrder ==
    /\ [](\A i, j \in DOMAIN wire :
            /\ (i < j /\ wire[i].conn = wire[j].conn) => wire[i].id < wire[j].id
            /\ (i # j) => wire[i].id # wire[j].id)
    /\ [][wire' # wire =>
            /\ outCp.Packet.kind = "ip"
            /\ wire' = Append(wire, [id |-> outCp.Packet.id,
                                     conn |-> outCp.Packet.dev,
                                     src |-> outCp.Packet.contents.src,
                                     data |-> <<outCp.Packet.contents,
                                                outCp.Packet.payload>>])]_vars

\* Three frames are on the transport, two of one handle around one of another.
PerHandleOrderWitness ==
    /\ Len(wire) = 3
    /\ wire[1].conn = wire[3].conn
    /\ wire[2].conn # wire[1].conn

\* C10, as claimed. The frames of one source IP appear on the transport in
\* capture order, also when they were captured on more than one handle.
PerSourceOrder ==
    \A i, j \in DOMAIN wire :
       (i < j /\ wire[i].src = wire[j].src) => wire[i].id < wire[j].id

\* C10, amended. The frames of one source IP captured on the same handle
\* appear on the transport in capture order.
PerSourceOrderOnOneHandle ==
    \A i, j \in DOMAIN wire :
       (i < j /\ wire[i].src = wire[j].src /\ wire[i].conn = wire[j].conn) =>
          wire[i].id < wire[j].id

\* Two frames of one source IP and one handle are on the transport, after a
\* frame of that source IP captured later on another handle.
PerSourceOrderWitness ==
    /\ Len(wire) = 3
    /\ wire[1].src = wire[2].src /\ wire[2].src = wire[3].src
    /\ wire[2].conn = wire[3].conn
    /\ wire[1].conn # wire[2].conn
    /\ wire[1].id > wire[2].id

\* The worker has returned from publish() for the ARP request it holds.
Published == outPc = "recv" /\ outCp.Packet.kind = "arp"

\* The replies written on capture handles for the ARP request with this id
RepliesOf(eg, id) == {i \in DOMAIN eg : eg[i].origin = "arp" /\ eg[i].id = id}

\* C11. ARP publish reply addressing: the reply written for a captured ARP
\* request has as ARP source hardware address the MAC of the upstream
\* interface, as ARP source protocol address the request's target protocol
\* address, as ARP destination hardware and protocol addresses the request's
\* source hardware and protocol addresses, and an Ethernet header from the
\* upstream MAC to the requester's MAC.
ARPReplyAddressing ==
    Published =>
       \A i \in RepliesOf(egress, outCp.Packet.id) :
          /\ egress[i].data[1].op = "reply"
          /\ egress[i].data[1].srcHw = LocalMAC(UpDev)
          /\ egress[i].data[1].srcProt = outCp.Packet.contents.dst
          /\ egress[i].data[1].dstHw = outCp.Packet.contents.srcHw
          /\ egress[i].data[1].dstProt = outCp.Packet.contents.src
          /\ egress[i].link.type = "ethernet"
          /\ egress[i].link.src = LocalMAC(UpDev)
          /\ egress[i].link.dst = outCp.Packet.link.src

\* The number of ARP replies whose write on the capture handle succeeded
RepliesWritten(eg) == Cardinality({i \in DOMAIN eg : eg[i].origin = "arp" /\ eg[i].ok})

\* C12. ARP-driven reconnect: on a FakeTCP transport, with or without KCP, the
\* reconnect is invoked exactly once for every ARP reply written, after the
\* write of the reply; on a standard TCP transport it is never invoked; it is
\* never invoked without a successfully written ARP reply before it.
ReconnectAfterReply ==
    /\ [][reconnects' # reconnects =>
             /\ reconnects' = reconnects + 1
             /\ mode = "faketcp"
             /\ outCp.Packet.kind = "arp"
             /\ egress # <<>>
             /\ egress[Len(egress)].origin = "arp"
             /\ egress[Len(egress)].id = outCp.Packet.id
             /\ egress[Len(egress)].ok
             /\ reconnects' = RepliesWritten(egress)]_vars
    /\ [](outPc # "reconnect" =>
            reconnects = IF mode = "faketcp" THEN RepliesWritten(egress) ELSE 0)

\* On a FakeTCP transport that carries KCP one reply failed to be written and
\* another was written and followed by its reconnect.
ReconnectWitness ==
    /\ Published
    /\ mode = "faketcp"
    /\ isKCP
    /\ reconnects = 1
    /\ \E i \in DOMAIN egress : egress[i].origin = "arp" /\ ~egress[i].ok
    /\ egress[Len(egress)].origin = "arp"
    /\ egress[Len(egress)].ok

\* C13. The transport is single-writer and single-reader: at most one task is
\* inside a write or a reconnect of the transport and at most one inside a
\* read of it; the writes and reconnects are the outbound worker's, the reads
\* the inbound worker's.
TransportSingleAccess ==
    /\ Cardinality(upWriters) <= 1
    /\ Cardinality(upReaders) <= 1
    /\ upWriters \subseteq {"worker"}
    /\ upReaders \subseteq {"main"}
    /\ upWriters # {} <=> (outPc = "write" \/ (outPc = "reconnect" /\ mode = "faketcp"))
    /\ upReaders # {} <=> (inPc = "read" /\ exit = "none")

\* The outbound worker reconnects the transport while the inbound worker
\* reads from it.
TransportAccessWitness ==
    /\ outPc = "reconnect"
    /\ upWriters = {"worker"}
    /\ upReaders = {"main"}
    /\ inDg.kind = "ip"

\* C14. NAT lock discipline: every access to the NAT table is made with the
\* NAT lock held, exclusively for an upsert and at least shared for a lookup,
\* the lookup by which the outbound worker decides on the upsert included; and
\* the entry an inbound lookup returns is a (MAC, handle) pair that one upsert
\* stored together.
NatLockDiscipline ==
    /\ \A a \in outAcc \cup inAcc :
          /\ a.op = "upsert" => a.lock = "exclusive"
          /\ a.op = "lookup" => a.lock \in {"shared", "exclusive"}
    /\ inNi # NoNat =>
          <<DstIP(inDg), inNi.srcHardwareAddr, inNi.conn>> \in captured

\* closeAll has run; every capture reader has returned
Closed == sigPc = "exit"
ReadersDone == \A conn \in listenConns : rdPc[conn] = "done"

\* C15, as claimed. After closeAll has run, once no task can take a step any
\* more, every capture reader, the outbound worker and the inbound worker
\* have terminated.
ShutdownTerminatesAll ==
    (Closed /\ ~ENABLED NextClose) => (ReadersDone /\ inPc = "done" /\ outPc = "done")

\* C15, amended. After closeAll has run, every capture reader and the inbound
\* worker eventually terminate, a reader blocked on the full queue included;
\* the outbound worker drains the queue and then waits on it for ever.
ShutdownTerminatesReaders ==
    /\ Closed ~> (ReadersDone /\ inPc = "done")
    /\ Closed ~> [](outPc = "recv" /\ c = <<>>)

\* closeAll has run while a reader is blocked on the full queue, the other
\* reader has terminated and the outbound worker has not yet drained the queue.
ShutdownWitness ==
    /\ Closed
    /\ Len(c) = QueueCap
    /\ \E conn \in listenConns : rdPc[conn] = "send"
    /\ \E conn \in listenConns : rdPc[conn] = "done"
    /\ inPc = "done"

\* The step by which upConn.Read, or ReadPacket on a conn, returns an error
UpErrStep ==
    /\ inPc = "read"
    /\ upErr' \in {"EOF", "other"}
    /\ upErr' # upErr \/ inPc' # inPc \/ exit' = "1"
ReadErrStep(conn) ==
    /\ rdPc[conn] = "read"
    /\ rdErr'[conn] = "read"
    /\ rdErr[conn] # "read" \/ rdPc'[conn] # "read"

\* C16. Read errors: when upConn.Read returns an error, the inbound worker
\* terminates normally if the closed flag is set, also on EOF; otherwise on
\* EOF the process exits with a non-zero code; otherwise the worker goes on to
\* the next read. When ReadPacket returns an error, the capture reader
\* returns if the closed flag is set and reads again otherwise.
ReadErrorHandling ==
    /\ [][UpErrStep =>
             IF isClosed THEN inPc' = "done" /\ exit' = "none"
             ELSE IF upErr' = "EOF" THEN exit' = "1"
             ELSE inPc' = "read" /\ exit' = "none"]_vars
    /\ [][\A conn \in listenConns : ReadErrStep(conn) =>
             /\ rdPc'[conn] = IF isClosed THEN "done" ELSE "read"
             /\ exit' = "none"]_vars
    /\ [][(exit = "none" /\ exit' = "1" /\ inPc = "read") =>
             (~isClosed /\ upErr' = "EOF")]_vars

\* With the closed flag set the inbound worker has terminated on an EOF and a
\* capture reader has returned, while another reader, which logged an error
\* before, has not yet read again.
ReadErrorWitness ==
    /\ inPc = "done"
    /\ upErr = "EOF"
    /\ exit = "none"
    /\ \E conn \in listenConns : rdPc[conn] = "done"
    /\ \E conn \in listenConns : rdPc[conn] = "read" /\ rdErr[conn] = "read"

\* The errors handleListen and handleUpstream return, and the steps by which
\* they return
OutErrors == {"parse packet", "publish", "write"}
InErrors == {"parse embedded packet", "missing nat", "serialize", "write"}
InHandleListen == {"publish", "reconnect", "write", "record"}
OutReturn ==
    \/ outPc = "recv" /\ outCp' # outCp /\ outPc' \notin InHandleListen
    \/ outPc \in InHandleListen /\ outPc' \notin InHandleListen
InReturn == inPc \in {"handle", "write"} /\ inPc' \notin {"handle", "write"}

\* C17. Per-frame errors are confined: when handling a frame ends with a parse
\* error, an unsupported layer, a NAT miss, a serialize error, a write error
\* on a capture handle or on the transport, or a reconnect error, the worker
\* that handled it goes on to the next item of the queue or the next read of
\* the transport, the process keeps running, and the next frame can be taken.
PerFrameErrorsConfined ==
    /\ [][(OutReturn /\ outErr' \in OutErrors) =>
             (outPc' = "recv" /\ exit' = "none")]_vars
    /\ [][(InReturn /\ inErr' \in InErrors) =>
             (inPc' = "read" /\ exit' = "none")]_vars
    /\ []((outErr \in OutErrors /\ c # <<>>) => ENABLED OutRecv)
    /\ []((inErr \in InErrors /\ inbox # <<>>) => ENABLED InRead)
    /\ [](inPc # "done" /\ outPc # "done" /\ exit = "none")

\* The ARP reply to the first frame could not be written and the second frame
\* went out on the transport; the first datagram was dropped with an error and
\* the second was written to its capture handle.
PerFrameErrorsWitness ==
    /\ \E i \in DOMAIN egress :
          egress[i].origin = "arp" /\ egress[i].id = 1 /\ ~egress[i].ok
    /\ \E i \in DOMAIN wire : wire[i].id = 2
    /\ EgressOf(egress, 1) = {}
    /\ \E i \in EgressOf(egress, 2) : egress[i].ok
    /\ outPc = "recv" /\ outErr = "nil"
    /\ inPc = "read" /\ inErr = "nil"

\* The capture handles and the transport that open() has acquired
Acquired == {opened[i] : i \in DOMAIN opened} \ {"pinger"}

\* C18. Scoped release on every exit path: when the process has exited after
\* open() acquired a resource (a later capture handle could not be opened, the
\* transport could not be opened, the transport returned EOF, or a signal
\* arrived), every capture handle opened and the transport, if opened, have
\* been closed.
ScopedRelease ==
    exit # "none" => \A r \in Acquired : Released(r)

\* The place of a resource in the order capture handles, transport, prober
Rank(r) == IF r \in Conns THEN 1 ELSE IF r = "upConn" THEN 2 ELSE 3
Range(q) == {q[i] : i \in DOMAIN q}

\* C19. Release order on shutdown: open() acquires the capture handles, then
\* the transport, then the prober, and closeAll, once it has released them
\* all, has released them in the reverse order of these three kinds: the
\* prober first, then the transport, then the capture handles.
ReleaseReversesAcquisition ==
    /\ \A i, j \in DOMAIN opened : i < j => Rank(opened[i]) <= Rank(opened[j])
    /\ (sigPc \in {"exit", "done"} /\ Range(released) = Range(opened)) =>
          \A i, j \in DOMAIN released :
              i < j => Rank(released[i]) >= Rank(released[j])

\* The frames a capture reader has read and not yet put on c, and the frames
\* on c, each with the handle it travels with
Blocked == {conn \in Conns : rdPc[conn] = "send"}
Waiting ==
    {[Packet |-> rdPkt[conn], Conn |-> conn] : conn \in Blocked}
    \cup {c[i] : i \in DOMAIN c}
Holds(cp) == cp.Packet.kind # "none"

\* What the queue and its two ends do in every state and every step: c holds
\* at most QueueCap frames, each once and with the handle it was read from; a
\* reader leaves its send only by appending its frame and its handle to c; c
\* changes only by such a send or by the worker taking its head; the worker
\* gets a frame only by taking the head of c.
FanInSafety ==
    /\ [](Len(c) <= QueueCap)
    /\ [](\A cp \in Waiting \cup {outCp} : Holds(cp) => cp.Conn = cp.Packet.dev)
    /\ [](\A i, j \in DOMAIN c : i # j => c[i].Packet.id # c[j].Packet.id)
    /\ [](\A conn \in Blocked :
            /\ \A i \in DOMAIN c : c[i].Packet.id # rdPkt[conn].id
            /\ Holds(outCp) => outCp.Packet.id # rdPkt[conn].id)
    /\ [](\A i \in DOMAIN c : Holds(outCp) => outCp.Packet.id # c[i].Packet.id)
    /\ [][\A conn \in Blocked :
            conn \notin Blocked' =>
               /\ Len(c) < QueueCap
               /\ c' = Append(c, [Packet |-> rdPkt[conn], Conn |-> conn])]_vars
    /\ [][c' # c =>
            \/ \E conn \in Blocked :
                  c' = Append(c, [Packet |-> rdPkt[conn], Conn |-> conn])
            \/ c # <<>> /\ c' = Tail(c) /\ outCp' = Head(c)]_vars
    /\ [][outCp' # outCp => c # <<>> /\ outCp' = Head(c) /\ c' = Tail(c)]_vars

\* C20, as claimed. Bounded blocking fan-in: the capture queue never holds
\* more than its capacity; a reader whose frame does not fit blocks rather than
\* discarding it; every frame read by a capture reader is handed to the
\* outbound worker, exactly once and with the handle it was read from, so
\* that when the process has exited no frame is left with a reader or on the
\* queue.
FanInDeliversAll ==
    /\ FanInSafety
    /\ [](exit # "none" => Waiting = {})

\* C20, amended. Bounded blocking fan-in: the capture queue never holds more
\* than its capacity; a reader whose frame does not fit blocks rather than
\* discarding it; every frame read by a capture reader is handed to the
\* outbound worker, exactly once and with the handle it was read from, unless
\* the process exits first: the frames then left with a reader or on the
\* queue are lost.
FanInDeliversUnlessExit ==
    /\ FanInSafety
    /\ \A k \in 1..MaxCloseFrames :
          (\E conn \in Blocked : rdPkt[conn].id = k) ~>
             \/ Holds(outCp) /\ outCp.Packet.id = k /\ outCp.Conn = outCp.Packet.dev
             \/ exit # "none"

\* A reader is blocked with its frame on the full queue, before shutdown
FanInWitness ==
    /\ Len(c) = QueueCap
    /\ Blocked # {}
    /\ ~isClosed
    /\ exit = "none"

\* C21. Port selection: when the configured upstream port is 0, the chosen
\* upstream port lies in [49152, 65535] and differs from the monitor port;
\* whenever open() is called with the monitor enabled, the upstream port
\* differs from the monitor port, an explicitly configured equal port being a
\* fatal error; a configured port outside [0, 65535] is a fatal error.
PortSelection ==
    /\ [][(mainPc = "draw" /\ mainPc' = "sources") =>
            (upPort' \in PortBase..MaxPort /\ upPort' # cfg.Monitor)]_vars
    /\ []((mainPc \in {"call", "open"} /\ cfg.Monitor # 0) => upPort # cfg.Monitor)
    /\ [][(mainPc = "monitor" /\ cfg.Monitor # 0 /\ cfg.Monitor = upPort) =>
            exit' = "1"]_vars
    /\ []((cfg.Port < 0 \/ cfg.Port > MaxPort) => mainPc = "verify")
    /\ [][(mainPc = "verify" /\ (cfg.Port < 0 \/ cfg.Port > MaxPort)) =>
            exit' = "1"]_vars

\* open() has been called with the monitor enabled on the first port a draw
\* can give, and with another drawn port as the upstream port
PortSelectionWitness ==
    /\ mainPc = "open"
    /\ monitor.on
    /\ cfg.Monitor = PortBase
    /\ upPort = PortBase + 1

\* A configured address that does not parse
Invalid(text) == text # <<>> /\ ParseIP(text) = NoIP
InvalidIP ==
    \/ Invalid(cfg.Gateway)
    \/ \E i \in DOMAIN cfg.Sources : ParseIP(cfg.Sources[i]) = NoIP
    \/ Invalid(cfg.Publish)

\* C22. Invalid IP is a fatal configuration error: when the gateway, a source
\* or the publish address does not parse, main does not go on past the
\* parsing of the addresses and the pipeline is never started: open() is not
\* called, no capture handle is opened, no capture filter is built from the
\* invalid address and no transport is dialed.
InvalidIPIsFatal ==
    InvalidIP =>
       /\ mainPc \notin {"monitor", "call", "open"}
       /\ listenConns = {}
       /\ filter.arp # <<NoIP>>
       /\ \A i \in DOMAIN opened : opened[i] # "upConn"

\* The datagram decodes as DNS, is a response, and the name of its first
\* answer is in the rewrite table
RewriteApplies(dg) ==
    /\ dg.payload.dns # NoDNS
    /\ dg.payload.dns.QR
    /\ Len(dg.payload.dns.Answers) > 0
    /\ dg.payload.dns.Answers[1].Name \in {"api.twitter.com", "www.facebook.com"}

\* The inner datagram of the last frame written on a capture handle
Emitted(eg) == eg[Len(eg)].data

\* C23. DNS rewrite policy: the datagram the inbound worker writes to the
\* capture handle differs from the one received from the transport only if
\* that one decodes as DNS, is a response and has the name of its first
\* answer in the rewrite table; when it does, the written frame has the
\* received network header and as many answers as received, and every A
\* answer carries the replacement address; when it does not, the written
\* datagram is the received one.
DNSRewritePolicy ==
    [][(inPc = "write" /\ inPc' # inPc /\ egress' # egress) =>
         LET out == Emitted(egress')
         IN  /\ Len(egress') = Len(egress) + 1
             /\ out[1] = inDg.contents
             /\ out[2].transport = inDg.payload.transport
             /\ IF RewriteApplies(inDg)
                THEN /\ Len(out[2].dns.Answers) = Len(inDg.payload.dns.Answers)
                     /\ \A i \in DOMAIN out[2].dns.Answers :
                           out[2].dns.Answers[i].Type = "A" =>
                              out[2].dns.Answers[i].IP = ForgedIP
                ELSE out = <<inDg.contents, inDg.payload>>]_vars

\* A response for a name of the rewrite table was written to the host with
\* the replacement address in the place of the address the server sent.
DNSRewriteWitness ==
    /\ inPc = "read"
    /\ inErr = "nil"
    /\ RewriteApplies(inDg)
    /\ egress # <<>>
    /\ Emitted(egress)[2].dns.Answers[1].IP = ForgedIP
    /\ inDg.payload.dns.Answers[1].IP = "104.244.42.1"

\* The answers OverwriteAnswer has changed, and the answers whose address
\* Answers reported
Rewritten == {i \in DOMAIN layer0.Answers : layer.Answers[i] # layer0.Answers[i]}
Reported == {i \in DOMAIN layer0.Answers : layer0.Answers[i].IP \in reported.ips}

\* C24. OverwriteAnswer sets the address of every A answer to the replacement
\* and leaves every other answer unchanged, AAAA answers included; the number,
\* the order and the names of the answers are unchanged; the answers it
\* rewrites are exactly the answers whose addresses Answers reports.
OverwriteOnlyA ==
    dnsPc = "overwritten" =>
       /\ Len(layer.Answers) = Len(layer0.Answers)
       /\ \A i \in DOMAIN layer0.Answers :
             /\ layer.Answers[i].Name = layer0.Answers[i].Name
             /\ layer.Answers[i].Type = layer0.Answers[i].Type
             /\ layer0.Answers[i].Type = "A" => layer.Answers[i].IP = ForgedIP
             /\ layer0.Answers[i].Type # "A" => layer.Answers[i] = layer0.Answers[i]
       /\ Rewritten = Reported

\* C25. ARP frames bypass the tunnel: no step that leaves the outbound worker
\* with a captured ARP frame as the frame it handles, or has handled last,
\* changes the NAT table, writes to the transport or updates the traffic
\* monitor, whether publish() succeeds or fails; the worker goes from the
\* frame to publish() and from there to the next frame.
ARPBypassesTunnel ==
    /\ [][(Holds(outCp') /\ outCp'.Packet.kind = "arp") =>
            (nat' = nat /\ wire' = wire /\ monitor' = monitor)]_vars
    /\ []((Holds(outCp) /\ outCp.Packet.kind = "arp") =>
            /\ outPc \in {"publish", "reconnect", "recv"}
            /\ \A i \in DOMAIN wire : wire[i].id # outCp.Packet.id)

\* publish() has failed for an ARP request captured after a frame that was
\* tunneled and recorded in the NAT table
ARPBypassWitness ==
    /\ outPc = "recv"
    /\ Holds(outCp) /\ outCp.Packet.kind = "arp"
    /\ outErr = "publish"
    /\ nat # <<>>
    /\ wire # <<>>

\* C26. Liveness watchdog: the timeout task armed by an echo reply with
\* sequence number n sets pingTime to the "down" value at its deadline if and
\* only if no reply with a later sequence number than n arrived between that
\* reply and the deadline, duplicate and out-of-order replies included.
WatchdogExact ==
    \A i \in DOMAIN watchdogs :
       watchdogs[i].st = "done" => (watchdogs[i].set <=> ~watchdogs[i].later)

====
